---- MODULE Spec2Model ----
(***************************************************************************)
(* Request dispatch and rate-limit recovery of trello-helper.              *)
(*                                                                         *)
(* Trello.get/put/post/delete wrap TrelloRequest.get/put/post/delete (the  *)
(* transport).  Trello.get attaches a catch handler to the transport       *)
(* promise: on an error whose statusCode is the rate-limit error it awaits *)
(* utils.delay(getRateLimitDelayMs()) and then calls this.get(pathOptions) *)
(* again, as a statement whose promise is neither returned nor awaited.    *)
(*                                                                         *)
(* A logical call is the invocation made by the caller together with the   *)
(* chain of invocations its catch handlers start.  Only one invocation of  *)
(* a chain is active at a time; depth counts the invocations started by    *)
(* handlers, so the active invocation is the caller's own iff depth = 0.   *)
(***************************************************************************)
EXTENDS Integers, Sequences, FiniteSets

VARIABLES
    verb,       \* verb[c]: the operation the caller invoked in slot c, or "none"
    pc,         \* pc[c]: position of the active invocation of c's chain
    depth,      \* depth[c]: number of this.get(pathOptions) calls made by catch handlers
    promise,    \* promise[c]: state of the promise returned to the caller
    value,      \* value[c]: what the caller's promise settled with
    attempts,   \* attempts[c]: transport invocations made on behalf of c
    responses,  \* responses[c]: transport outcomes received so far, in order
    delayLog,   \* delayLog[c]: the ms argument of every utils.delay started
    timer,      \* timer[c]: ms of the pending setTimeout, 0 when none
    unhandled,  \* unhandled[c]: errors thrown by invocations nobody awaits
    args,       \* args[c]: the pathOptions object the caller passed
    requests,   \* requests[c]: the options objects handed to rpn.<verb>, in order
    resolveWithFullResponse,
                \* resolveWithFullResponse[c]: that property of the options
                \* object of c's latest transport attempt
    trelloRequest,
                \* the TrelloRequest instance: key, token, uri, doFullResponse
    op          \* the domain verb in progress: its position, the listings it
                \* holds, the requests it has issued, the answers to its PUTs
                \* and how its promise settled

callVars == <<verb, pc, depth, promise, value, attempts, responses, delayLog, timer, unhandled>>

vars == <<verb, pc, depth, promise, value, attempts, responses, delayLog, timer, unhandled,
          args, requests, resolveWithFullResponse, trelloRequest, op>>

----------------------------------------------------------------------------
(* Bounds *)

\* number of call slots (calls that may be in flight together)
NumCalls == 2

\* the transport stops answering 429 once a call has made this many attempts
MaxAttempts == 5

Calls == 1..NumCalls

\* number of call slots used when the caller's arguments and the full
\* response flag vary
NumDispatchCalls == 1

DispatchCalls == 1..NumDispatchCalls

----------------------------------------------------------------------------
(* Values *)

Verbs == {"get", "put", "post", "delete"}

\* decoded JSON bodies the remote service may answer with
Bodies == {"cardABC", "emptyList"}

\* statusCode of an error object; NoStatus is an error without a statusCode
\* property (network failure)
NoStatus == 0
StatusCodes == {429, 404, NoStatus}

Undefined == [kind |-> "undefined"]
Body(b) == [kind |-> "body", val |-> b]
Err(s) == [kind |-> "error", statusCode |-> s]

Successes == {Body(b) : b \in Bodies}
Errors == {Err(s) : s \in StatusCodes}

\* the full response object of request-promise-native
Envelope(b) == [kind |-> "envelope", statusCode |-> 200, body |-> b]

\* what tv.validatePathOptions and tv.validateOptionsOrBody throw
ValidationError == [kind |-> "validation"]

\* JavaScript values of the caller's arguments: undefined, strings, and
\* objects as sets of <<property, value>> pairs
Str(s) == [kind |-> "string", str |-> s]
Obj(entries) == [kind |-> "object", entries |-> entries]

Paths == {Undefined, Str(""), Str("/1/cards/ABC")}

OptionValues ==
    {Undefined, Obj({}), Obj({<<"fields", "name">>, <<"key", "callerKey">>}), Str("name")}

PathOptions == [path : Paths, options : OptionValues]

\* the pathOptions of the calls of the retry protocol
DefaultPathOptions == [path |-> Str("/1/cards/ABC"), options |-> Obj({})]

Keys(entries) == {e[1] : e \in entries}

\* {...a, ...b} on property sets: b's value wins for a property of both
Spread(a, b) == {e \in a : e[1] \notin Keys(b)} \cup b

\* the own enumerable properties a spread takes from a value
Properties(x) == IF x.kind = "object" THEN x.entries ELSE {}

----------------------------------------------------------------------------
(* TrelloRequest statics *)

getRateLimitError == 429

getRateLimitDelayMs == 500

----------------------------------------------------------------------------
(* typeValidate *)

\* tv.validatePathOptions(pathOptions): path is a non-empty string and
\* options, when present, is a mapping
validatePathOptions(po) ==
    /\ po.path.kind = "string" /\ po.path # Str("")
    /\ po.options.kind \in {"undefined", "object"}

\* tv.validateOptionsOrBody(obj, name): obj[name], when present, is a mapping
validateOptionsOrBody(x) == x.kind \in {"undefined", "object"}

\* tv.validate({obj, reqKeys}): obj has a value for every required key
validate(entries, reqKeys) == reqKeys \subseteq Keys(entries)

----------------------------------------------------------------------------
(* Construction *)

\* the value read from a property: undefined, written as a string, when the
\* object has no such property
Get(entries, k) ==
    IF k \in Keys(entries) THEN (CHOOSE e \in entries : e[1] = k)[2] ELSE "undefined"

\* what envCreate.load reports and what it has put into
\* process.env.trelloHelper
LoadResults ==
    {[status |-> FALSE, json |-> {}]} \cup
    {[status |-> TRUE, json |-> j] : j \in SUBSET {<<"appKey", "appKey">>, <<"token", "appToken">>}}

\* const {appKey: key, token} = trelloAuth
KeyTokenPair(json) ==
    {<<"key", e[2]>> : e \in {f \in json : f[1] = "appKey"}} \cup {f \in json : f[1] = "token"}

\* the fields the TrelloRequest constructor sets
NewTrelloRequest(keyTokenPair) ==
    [key |-> Get(keyTokenPair, "key"),
     token |-> Get(keyTokenPair, "token"),
     uri |-> "https://api.trello.com",
     doFullResponse |-> FALSE]

\* no new Trello(...) has been evaluated yet
NotConstructed == [constructed |-> FALSE]

\* new Trello(...) threw
Thrown(e) == [constructed |-> FALSE, error |-> e]

IsInstance(t) == "uri" \in DOMAIN t

\* a constructor that goes on whatever load reports and without tv.validate
TrelloConstructor_NoChecks(load) == NewTrelloRequest(KeyTokenPair(load.json))

\* new Trello(pathString): throw when load reports failure; otherwise
\* new TrelloRequest({key, token}), which validates the pair first
TrelloConstructor(load) ==
    IF load.status = FALSE
    THEN Thrown("FATAL ERROR reading credentials")
    ELSE IF validate(KeyTokenPair(load.json), {"key", "token"})
         THEN NewTrelloRequest(KeyTokenPair(load.json))
         ELSE Thrown("validation")

----------------------------------------------------------------------------
(* TrelloRequest *)

\* _getAuthObj()
getAuthObj == {<<"key", trelloRequest.key>>, <<"token", trelloRequest.token>>}

\* `${this.uri}${path}`
Template(x) == IF x.kind = "string" THEN x.str ELSE "undefined"

setupDefaultOption(path) ==
    [uri |-> trelloRequest.uri \o Template(path),
     qs |-> getAuthObj,
     json |-> TRUE,
     resolveWithFullResponse |-> trelloRequest.doFullResponse,
     body |-> Undefined,
     options |-> Undefined]

\* the spread written in the other order: {...options, ...auth}
getRpnOptions_AuthLast(path, options) ==
    [setupDefaultOption(path) EXCEPT !.qs = Spread(Properties(options), getAuthObj)]

\* the options object TrelloRequest.get hands to rpn.get
getRpnOptions(path, options) ==
    [setupDefaultOption(path) EXCEPT !.qs = Spread(getAuthObj, Properties(options))]

\* the credentials merged into the body as well
setupPutPostOptions_AuthInBody(path, body) ==
    [setupDefaultOption(path) EXCEPT !.body = Obj(Spread(getAuthObj, Properties(body)))]

\* setupPutPostOptions({path, body})
setupPutPostOptions(path, body) ==
    [setupDefaultOption(path) EXCEPT !.body = body]

\* the options object TrelloRequest.delete hands to rpn.delete
deleteRpnOptions(path, options) ==
    [setupDefaultOption(path) EXCEPT !.options = options]

\* Trello.<verb> passes pathOptions.options as options (get, delete) or as
\* body (put, post) to TrelloRequest.<verb>
rpnOptionsFor(v, po) ==
    CASE v = "get" -> getRpnOptions(po.path, po.options)
      [] v \in {"put", "post"} -> setupPutPostOptions(po.path, po.options)
      [] v = "delete" -> deleteRpnOptions(po.path, po.options)

\* the validation calls are missing
Accepts_Unchecked(v, po) == v \in Verbs

\* only the path is looked at
Accepts_PathOnly(v, po) == po.path.kind = "string" /\ po.path # Str("")

\* tv.validatePathOptions at the head of Trello.<verb>, then
\* tv.validateOptionsOrBody at the head of TrelloRequest.<verb>
Accepts(v, po) == validatePathOptions(po) /\ validateOptionsOrBody(po.options)

\* what goes out with rpn.<verb>(rpnOptions)
Sent(v, rpnOptions) ==
    [method |-> v,
     uri |-> rpnOptions.uri,
     qs |-> rpnOptions.qs,
     json |-> rpnOptions.json,
     body |-> rpnOptions.body,
     options |-> rpnOptions.options]

\* rpn.<verb>(rpnOptions): one HTTP request
rpn(c, v, rpnOptions) ==
    /\ requests' = [requests EXCEPT ![c] = Append(@, Sent(v, rpnOptions))]
    /\ resolveWithFullResponse' =
            [resolveWithFullResponse EXCEPT ![c] = rpnOptions.resolveWithFullResponse]

\* the value rpn resolves with for a 2xx answer with decoded body r
rpnResolve(full, r) == IF full THEN Envelope(r.val) ELSE r

----------------------------------------------------------------------------
(* Trello.get's catch handler *)

\* the comparison made against the other getter
IsRateLimitError_DelayGetter(error) == error.statusCode = getRateLimitDelayMs

\* the comparison dropped: every rejection is taken for a rate-limit error
IsRateLimitError_AnyError(error) == error.kind = "error"

\* a test of error.statusCode for truthiness
IsRateLimitError_Truthy(error) == error.statusCode # NoStatus

\* error.statusCode === this.getRateLimitError()
IsRateLimitError(error) == error.statusCode = getRateLimitError

\* the catch handler attached in every verb
HasCatchHandler_AllVerbs(v) == v \in Verbs

\* only get chains .catch onto the transport promise; put, post and delete
\* return the awaited transport promise as it is
HasCatchHandler(v) == v = "get"

\* a promise whose timer is never armed
delay_NeverArmed(c, ms) ==
    /\ timer' = [timer EXCEPT ![c] = 0]
    /\ delayLog' = [delayLog EXCEPT ![c] = Append(@, ms)]

\* a delay growing with the number of retries
delay_Backoff(c, ms) ==
    /\ timer' = [timer EXCEPT ![c] = ms * (Len(delayLog[c]) + 1)]
    /\ delayLog' = [delayLog EXCEPT ![c] = Append(@, ms * (Len(delayLog[c]) + 1))]

\* utils.delay(ms): doTimeout(ms) arms setTimeout(res, ms)
delay(c, ms) ==
    /\ timer' = [timer EXCEPT ![c] = ms]
    /\ delayLog' = [delayLog EXCEPT ![c] = Append(@, ms)]

\* the function ends without returning responseStr
Settle_NoReturn(c, state, val) ==
    IF depth[c] = 0
    THEN /\ promise' = [promise EXCEPT ![c] = state]
         /\ value' = [value EXCEPT ![c] = IF state = "resolved" THEN Undefined ELSE val]
         /\ UNCHANGED unhandled
    ELSE /\ unhandled' = [unhandled EXCEPT ![c] =
                             IF state = "rejected" THEN @ \cup {val} ELSE @]
         /\ UNCHANGED <<promise, value>>

\* one retry marker shared by all calls instead of one per invocation
Settle_SharedDepth(c, state, val) ==
    IF \A d \in Calls : depth[d] = 0
    THEN /\ promise' = [promise EXCEPT ![c] = state]
         /\ value' = [value EXCEPT ![c] = val]
         /\ UNCHANGED unhandled
    ELSE /\ unhandled' = [unhandled EXCEPT ![c] =
                             IF state = "rejected" THEN @ \cup {val} ELSE @]
         /\ UNCHANGED <<promise, value>>

\* settle the promise of the active invocation: the caller's promise when the
\* invocation is the caller's own, otherwise a promise nobody holds
Settle(c, state, val) ==
    IF depth[c] = 0
    THEN /\ promise' = [promise EXCEPT ![c] = state]
         /\ value' = [value EXCEPT ![c] = val]
         /\ UNCHANGED unhandled
    ELSE /\ unhandled' = [unhandled EXCEPT ![c] =
                             IF state = "rejected" THEN @ \cup {val} ELSE @]
         /\ UNCHANGED <<promise, value>>

\* how the promise returned by Trello.<verb> settles, given the transport's
\* answer to the first attempt: get's handler turns a rate-limit error into
\* undefined (after the delay), every other answer is passed on
Awaited(v, first) ==
    IF first.kind = "error"
    THEN IF HasCatchHandler(v) /\ IsRateLimitError(first)
         THEN [state |-> "resolved", value |-> Undefined]
         ELSE [state |-> "rejected", value |-> first]
    ELSE [state |-> "resolved", value |-> first]

----------------------------------------------------------------------------
(* Domain verbs: values *)

\* the most cards a listing holds
MaxCards == 3

CardIds == {"c1", "c2", "c3", "c4"}

Bool(b) == [kind |-> "boolean", bool |-> b]

\* the error of calling a method of undefined or iterating a value that is
\* not iterable
TypeError == [kind |-> "TypeError"]

\* obj[k]
Prop(entries, k) ==
    IF k \in Keys(entries) THEN (CHOOSE e \in entries : e[1] = k)[2] ELSE Undefined

\* the card ids of the JSON arrays the remote service answers a card listing
\* with: cards of the list, none of them twice
IdSeqs ==
    {s \in UNION {[1..n -> CardIds] : n \in 0..MaxCards} :
        \A i, j \in DOMAIN s : s[i] = s[j] => i = j}

\* the remote service honours the filter of the request: closed cards for
\* filter=closed, open cards otherwise
Listing(ids, filter) ==
    [i \in DOMAIN ids |-> [id |-> ids[i], closed |-> filter = "closed"]]

\* json: true makes the transport parse the answer; every parse allocates
\* new objects, here told apart by ref (r numbers the parsed answers)
Parse(json, r) ==
    [i \in DOMAIN json |-> [ref |-> <<r, i>>, id |-> json[i].id, closed |-> json[i].closed]]

Ids(cards) == {cards[i].id : i \in DOMAIN cards}

\* Array.prototype.includes on an array of objects: the same object
includes(arr, x) == \E i \in DOMAIN arr : arr[i] = x

IsKept(newerCards, card) == ~includes(newerCards, card)

\* allCards.filter(card => !newerCards.includes(card))
olderCards(allCards, newerCards) ==
    SelectSeq(allCards, LAMBDA card : IsKept(newerCards, card))

\* moment().subtract(count, units).toISOString()
cutoffDate == "cutoff"

getCardPrefixWithId(cardId) == "/1/cards/" \o Template(cardId)

getListCardCmd(listId) == "/1/lists/" \o Template(listId) \o "/cards"

getBoardPrefixWithId(boardId) == "/1/board/" \o Template(boardId)

getCustomFieldUpdateCmd(cfp) ==
    "/1/cards/" \o Template(Prop(cfp, "cardId")) \o "/customField/"
        \o Template(Prop(cfp, "fieldId")) \o "/item"

customFieldType ==
    [list |-> "list", text |-> "text", number |-> "number", date |-> "date",
     checkbox |-> "checked"]

\* every type written as {value: {type: value}}
valueObj_NoListCase(type, v) == {<<"value", Obj({<<type.str, v>>})>>}

\* valueObj of setCustomFieldValueOnCard
valueObj(type, v) ==
    IF type.str = customFieldType.list
    THEN {<<"idValue", v>>}
    ELSE {<<"value", Obj({<<type.str, v>>})>>}

\* the spread written in the other order: {filter: 'closed', ...param.options}
archivedOptions_CallerLast(options) == Spread({<<"filter", "closed">>}, Properties(options))

\* {...param.options, filter: 'closed'}
archivedOptions(options) == Spread(Properties(options), {<<"filter", "closed">>})

\* the pathOptions getCardsOnList(param) passes to get
getCardsOnList(param) ==
    [path |-> Str(getListCardCmd(Prop(param, "listId"))), options |-> Prop(param, "options")]

\* the pathOptions getCardsOnBoard(param) passes to get
getCardsOnBoard(param) ==
    [path |-> Str(getBoardPrefixWithId(Prop(param, "boardId")) \o "/cards"),
     options |-> Prop(param, "options")]

\* the pathOptions archiveCard(param) passes to put
archiveCard(param) ==
    [path |-> Str(getCardPrefixWithId(Prop(param, "cardId"))),
     options |-> Obj({<<"closed", Bool(TRUE)>>})]

\* the pathOptions setClosedState(param) passes to put
setClosedState(param) ==
    [path |-> Str(getCardPrefixWithId(Prop(param, "cardId"))),
     options |-> Obj({<<"closed", Prop(param, "isClosed")>>})]

\* the arguments the domain verbs are called with
ListParams == {{<<"listId", Str("L1")>>}, {}}

ArchiveParams ==
    {{<<"listId", Str("L1")>>, <<"offset", Obj({<<"count", Str("1")>>, <<"units", Str("days")>>})>>},
     {<<"listId", Str("L1")>>, <<"offset", Obj({<<"count", Str("1")>>})>>},
     {<<"listId", Str("L1")>>}}

CallerOptions ==
    {Obj({}), Obj({<<"fields", "name">>}), Obj({<<"filter", "open">>, <<"limit", "10">>})}

ArchivedListParams ==
    {{<<"listId", Str("L1")>>, <<"options", o>>} : o \in CallerOptions}
        \cup {{<<"listId", Str("L1")>>}}

ArchivedBoardParams ==
    {{<<"boardId", Str("B1")>>, <<"options", o>>} : o \in CallerOptions}
        \cup {{<<"options", Obj({})>>}}

CardFieldObjs ==
    {Obj(e) : e \in SUBSET {<<"cardId", Str("c1")>>, <<"fieldId", Str("F1")>>}}

CustomFieldObjs ==
    {c \cup t \cup v :
        c \in {{}} \cup {{<<"cardFieldObj", f>>} : f \in CardFieldObjs},
        t \in {{}} \cup {{<<"type", Str(x)>>} : x \in {"list", "text", "checked"}},
        v \in {{}, {<<"value", Str("item1")>>}}}

----------------------------------------------------------------------------
(* Domain verbs: the operation in progress *)

NoOp ==
    [name |-> "none", pc |-> "idle", param |-> {},
     awaiting |-> [path |-> Undefined, options |-> Undefined],
     allCards |-> Undefined, newerCards |-> Undefined,
     todo |-> <<>>, issued |-> 0, inflight |-> 0, completed |-> 0,
     parsed |-> 0, sent |-> <<>>, answers |-> <<>>,
     result |-> [state |-> "none", value |-> Undefined]]

\* the operation's promise settles and the operation ends
OpSettle(o, state, val) ==
    [o EXCEPT !.pc = "done", !.result = [state |-> state, value |-> val]]

\* this.get(pathOptions), awaited at position pc
OpGet(o, po, pc_) ==
    [o EXCEPT !.pc = pc_, !.awaiting = po,
              !.result = [state |-> "pending", value |-> Undefined],
              !.sent = Append(@, Sent("get", rpnOptionsFor("get", po)))]

\* the PUT of the loop body for one card
CardPut(o, card) ==
    IF o.name = "archiveCardsOlderThan"
    THEN archiveCard({<<"cardId", Str(card.id)>>})
    ELSE setClosedState({<<"cardId", Str(card.id)>>, <<"isClosed", Bool(FALSE)>>})

\* a loop body without await: every remaining PUT goes out at once
AwaitEach_Missing(remaining) == remaining

\* await inside for...of: the function issues one PUT and suspends
AwaitEach(remaining) == IF remaining > 0 THEN 1 ELSE 0

\* the loop runs until it suspends or has no card left
RunLoop(o) ==
    LET n == AwaitEach(Len(o.todo) - o.issued)
    IN  IF n = 0
        THEN IF o.inflight = 0 THEN OpSettle(o, "resolved", Undefined) ELSE o
        ELSE [o EXCEPT !.pc = "awaitPut",
                       !.sent = @ \o [i \in 1..n |->
                                        Sent("put", rpnOptionsFor("put", CardPut(o, o.todo[o.issued + i])))],
                       !.issued = @ + n,
                       !.inflight = @ + n]

\* for (const card of cards): cards must be iterable
ForEachCard(o, cards) ==
    IF cards.kind # "body"
    THEN OpSettle(o, "rejected", TypeError)
    ELSE RunLoop([o EXCEPT !.todo = cards.val])

\* what follows the await of a listing, given how the promise of get settled
AfterListing(o, s) ==
    IF s.state = "rejected"
    THEN OpSettle(o, "rejected", s.value)
    ELSE CASE o.pc = "awaitAll" ->
                OpGet([o EXCEPT !.allCards = s.value],
                      getCardsOnList({<<"listId", Prop(o.param, "listId")>>,
                                      <<"options", Obj({<<"since", cutoffDate>>})>>}),
                      "awaitNewer")
           [] o.pc = "awaitNewer" ->
                IF o.allCards.kind # "body"
                THEN OpSettle([o EXCEPT !.newerCards = s.value], "rejected", TypeError)
                ELSE IF Len(o.allCards.val) > 0 /\ s.value.kind # "body"
                THEN OpSettle([o EXCEPT !.newerCards = s.value], "rejected", TypeError)
                ELSE ForEachCard([o EXCEPT !.newerCards = s.value],
                                 Body(IF Len(o.allCards.val) = 0 THEN <<>>
                                      ELSE olderCards(o.allCards.val, s.value.val)))
           [] o.pc = "awaitList" -> ForEachCard(o, s.value)
           [] o.pc = "awaitGet" -> OpSettle(o, "resolved", s.value)

\* what follows the await of a PUT, given how the promise of put settled
AfterPut(o, s) ==
    LET o1 == [o EXCEPT !.inflight = @ - 1]
    IN  IF s.state = "rejected"
        THEN OpSettle(o1, "rejected", s.value)
        ELSE IF o.pc = "awaitReturn"
        THEN OpSettle(o1, "resolved", s.value)
        ELSE RunLoop([o1 EXCEPT !.completed = @ + 1])

----------------------------------------------------------------------------
Init ==
    /\ verb = [c \in Calls |-> "none"]
    /\ pc = [c \in Calls |-> "idle"]
    /\ depth = [c \in Calls |-> 0]
    /\ promise = [c \in Calls |-> "none"]
    /\ value = [c \in Calls |-> Undefined]
    /\ attempts = [c \in Calls |-> 0]
    /\ responses = [c \in Calls |-> <<>>]
    /\ delayLog = [c \in Calls |-> <<>>]
    /\ timer = [c \in Calls |-> 0]
    /\ unhandled = [c \in Calls |-> {}]
    /\ args = [c \in Calls |-> [path |-> Undefined, options |-> Undefined]]
    /\ requests = [c \in Calls |-> <<>>]
    /\ resolveWithFullResponse = [c \in Calls |-> FALSE]
    /\ trelloRequest = TrelloConstructor([status |-> TRUE,
                                          json |-> {<<"appKey", "appKey">>, <<"token", "appToken">>}])
    /\ op = NoOp

\* before the program constructs its Trello object
InitConstruct ==
    /\ verb = [c \in Calls |-> "none"]
    /\ pc = [c \in Calls |-> "idle"]
    /\ depth = [c \in Calls |-> 0]
    /\ promise = [c \in Calls |-> "none"]
    /\ value = [c \in Calls |-> Undefined]
    /\ attempts = [c \in Calls |-> 0]
    /\ responses = [c \in Calls |-> <<>>]
    /\ delayLog = [c \in Calls |-> <<>>]
    /\ timer = [c \in Calls |-> 0]
    /\ unhandled = [c \in Calls |-> {}]
    /\ args = [c \in Calls |-> [path |-> Undefined, options |-> Undefined]]
    /\ requests = [c \in Calls |-> <<>>]
    /\ resolveWithFullResponse = [c \in Calls |-> FALSE]
    /\ trelloRequest = NotConstructed
    /\ op = NoOp

\* new Trello(pathString), with what envCreate.load finds
Construct(load) ==
    /\ trelloRequest = NotConstructed
    /\ trelloRequest' = TrelloConstructor(load)
    /\ UNCHANGED <<callVars, args, requests, resolveWithFullResponse, op>>

\* Trello.get / put / post / delete: validation first; then the transport
\* is invoked before the first await and the caller gets a pending promise
Invoke(c, v, po) ==
    /\ verb[c] = "none"
    /\ verb' = [verb EXCEPT ![c] = v]
    /\ args' = [args EXCEPT ![c] = po]
    /\ IF Accepts(v, po)
       THEN /\ rpn(c, v, rpnOptionsFor(v, po))
            /\ attempts' = [attempts EXCEPT ![c] = 1]
            /\ pc' = [pc EXCEPT ![c] = "transport"]
            /\ promise' = [promise EXCEPT ![c] = "pending"]
            /\ UNCHANGED value
       ELSE /\ pc' = [pc EXCEPT ![c] = "done"]
            /\ promise' = [promise EXCEPT ![c] = "rejected"]
            /\ value' = [value EXCEPT ![c] = ValidationError]
            /\ UNCHANGED <<attempts, requests, resolveWithFullResponse>>
    /\ UNCHANGED <<depth, responses, delayLog, timer, unhandled, trelloRequest, op>>

\* the instance replaced by an object that holds the flag alone
enableFullResponse_Replaces(enable) ==
    /\ trelloRequest' = [key |-> "undefined", token |-> "undefined",
                         uri |-> "undefined", doFullResponse |-> enable]
    /\ UNCHANGED <<callVars, args, requests, resolveWithFullResponse, op>>

\* enableFullResponse(enable)
enableFullResponse(enable) ==
    /\ trelloRequest' = [trelloRequest EXCEPT !.doFullResponse = enable]
    /\ UNCHANGED <<callVars, args, requests, resolveWithFullResponse, op>>

\* isInFullResponseMode()
isInFullResponseMode == trelloRequest.doFullResponse

\* the transport promise resolves; the awaiting invocation returns responseStr
TransportResolves(c, r) ==
    /\ pc[c] = "transport"
    /\ responses' = [responses EXCEPT ![c] =
                        Append(@, rpnResolve(resolveWithFullResponse[c], r))]
    /\ pc' = [pc EXCEPT ![c] = "done"]
    /\ Settle(c, "resolved", rpnResolve(resolveWithFullResponse[c], r))
    /\ UNCHANGED <<verb, depth, attempts, delayLog, timer>>
    /\ UNCHANGED <<args, requests, resolveWithFullResponse, trelloRequest, op>>

\* the transport promise rejects: put, post and delete pass the rejection on;
\* get's catch handler either starts the delay or rethrows
TransportRejects(c, error) ==
    /\ pc[c] = "transport"
    /\ (HasCatchHandler(verb[c]) /\ IsRateLimitError(error)) => attempts[c] < MaxAttempts
    /\ responses' = [responses EXCEPT ![c] = Append(@, error)]
    /\ IF HasCatchHandler(verb[c]) /\ IsRateLimitError(error)
       THEN /\ delay(c, getRateLimitDelayMs)
            /\ pc' = [pc EXCEPT ![c] = "delay"]
            /\ UNCHANGED <<promise, value, unhandled>>
       ELSE /\ pc' = [pc EXCEPT ![c] = "done"]
            /\ Settle(c, "rejected", error)
            /\ UNCHANGED <<delayLog, timer>>
    /\ UNCHANGED <<verb, depth, attempts>>
    /\ UNCHANGED <<args, requests, resolveWithFullResponse, trelloRequest, op>>

\* the statement written twice, so that two transport calls are issued
RetryGet_Twice(c) ==
    /\ rpn(c, "get", rpnOptionsFor("get", args[c]))
    /\ attempts' = [attempts EXCEPT ![c] = @ + 2]
    /\ depth' = [depth EXCEPT ![c] = @ + 1]
    /\ pc' = [pc EXCEPT ![c] = "transport"]

\* the retry made with the path alone: this.get({path})
RetryGet_PathOnly(c) ==
    /\ rpn(c, "get", rpnOptionsFor("get", [args[c] EXCEPT !.options = Undefined]))
    /\ attempts' = [attempts EXCEPT ![c] = @ + 1]
    /\ depth' = [depth EXCEPT ![c] = @ + 1]
    /\ pc' = [pc EXCEPT ![c] = "transport"]

\* the statement this.get(pathOptions) of the handler: a new invocation of
\* get with the caller's pathOptions object, which invokes the transport once
\* before its first await
RetryGet(c) ==
    /\ rpn(c, "get", rpnOptionsFor("get", args[c]))
    /\ attempts' = [attempts EXCEPT ![c] = @ + 1]
    /\ depth' = [depth EXCEPT ![c] = @ + 1]
    /\ pc' = [pc EXCEPT ![c] = "transport"]

\* the timer fires: the handler calls this.get(pathOptions), drops the promise
\* it gets and returns undefined, which becomes responseStr of the invocation
\* that was awaiting
DelayCompletes(c) ==
    /\ pc[c] = "delay"
    /\ timer[c] > 0
    /\ timer' = [timer EXCEPT ![c] = 0]
    /\ RetryGet(c)
    /\ Settle(c, "resolved", Undefined)
    /\ UNCHANGED <<verb, responses, delayLog, args, trelloRequest, op>>

----------------------------------------------------------------------------
(* Domain verbs: actions *)

dispatcherVars == <<callVars, args, requests, resolveWithFullResponse, trelloRequest>>

\* archiveCardsOlderThan(param): validation, the cutoff date, then the first
\* listing is requested
archiveCardsOlderThan(param) ==
    /\ op.name = "none"
    /\ op' = LET o == [op EXCEPT !.name = "archiveCardsOlderThan", !.param = param]
             IN  IF /\ validate(param, {"listId", "offset"})
                    /\ validate(Properties(Prop(param, "offset")), {"count", "units"})
                 THEN OpGet(o, getCardsOnList({<<"listId", Prop(param, "listId")>>,
                                               <<"options", Obj({})>>}), "awaitAll")
                 ELSE OpSettle(o, "rejected", ValidationError)
    /\ UNCHANGED dispatcherVars

\* unarchiveAllCardsOnList(param): validation, then
\* getArchivedCardsOnList({listId, options: {fields: 'name'}})
unarchiveAllCardsOnList(param) ==
    /\ op.name = "none"
    /\ op' = LET o == [op EXCEPT !.name = "unarchiveAllCardsOnList", !.param = param]
             IN  IF validate(param, {"listId"})
                 THEN OpGet(o, getCardsOnList(
                                 {<<"listId", Prop(param, "listId")>>,
                                  <<"options", Obj(archivedOptions(Obj({<<"fields", "name">>})))>>}),
                            "awaitList")
                 ELSE OpSettle(o, "rejected", ValidationError)
    /\ UNCHANGED dispatcherVars

\* getArchivedCardsOnList(param)
getArchivedCardsOnList(param) ==
    /\ op.name = "none"
    /\ op' = LET o == [op EXCEPT !.name = "getArchivedCardsOnList", !.param = param]
             IN  IF validate(param, {"listId", "options"})
                 THEN OpGet(o, getCardsOnList(
                                 {<<"listId", Prop(param, "listId")>>,
                                  <<"options", Obj(archivedOptions(Prop(param, "options")))>>}),
                            "awaitGet")
                 ELSE OpSettle(o, "rejected", ValidationError)
    /\ UNCHANGED dispatcherVars

\* getArchivedCardsOnBoard(param)
getArchivedCardsOnBoard(param) ==
    /\ op.name = "none"
    /\ op' = LET o == [op EXCEPT !.name = "getArchivedCardsOnBoard", !.param = param]
             IN  IF validate(param, {"boardId", "options"})
                 THEN OpGet(o, getCardsOnBoard(
                                 {<<"boardId", Prop(param, "boardId")>>,
                                  <<"options", Obj(archivedOptions(Prop(param, "options")))>>}),
                            "awaitGet")
                 ELSE OpSettle(o, "rejected", ValidationError)
    /\ UNCHANGED dispatcherVars

\* setCustomFieldValueOnCard(customFieldObj): not an async function, so a
\* failed validation is thrown to the caller; otherwise the promise of put
\* is returned
setCustomFieldValueOnCard(customFieldObj) ==
    /\ op.name = "none"
    /\ op' = LET o == [op EXCEPT !.name = "setCustomFieldValueOnCard",
                                 !.param = customFieldObj]
                 cfp == Properties(Prop(customFieldObj, "cardFieldObj"))
                 po == [path |-> Str(getCustomFieldUpdateCmd(cfp)),
                        options |-> Obj(valueObj(Prop(customFieldObj, "type"),
                                                 Prop(customFieldObj, "value")))]
             IN  IF /\ validate(customFieldObj, {"cardFieldObj", "type", "value"})
                    /\ validate(cfp, {"cardId", "fieldId"})
                 THEN [o EXCEPT !.pc = "awaitReturn",
                                !.result = [state |-> "pending", value |-> Undefined],
                                !.sent = Append(@, Sent("put", rpnOptionsFor("put", po))),
                                !.issued = 1,
                                !.inflight = 1]
                 ELSE OpSettle(o, "thrown", ValidationError)
    /\ UNCHANGED dispatcherVars

\* the remote service answers the listing the operation awaits with the
\* cards ids; a listing with since is a part of the list
ListingResolves(ids) ==
    /\ op.pc \in {"awaitAll", "awaitNewer", "awaitList", "awaitGet"}
    /\ (op.pc = "awaitNewer" /\ op.allCards.kind = "body") =>
            {ids[i] : i \in DOMAIN ids} \subseteq Ids(op.allCards.val)
    /\ op' = LET json == Listing(ids, Get(Properties(op.awaiting.options), "filter"))
                 r == Body(Parse(json, op.parsed + 1))
             IN  AfterListing([op EXCEPT !.parsed = @ + 1], Awaited("get", r))
    /\ UNCHANGED dispatcherVars

\* the remote service answers the listing the operation awaits with an
\* error; on the rate-limit error get's handler has called
\* this.get(pathOptions) by the time the operation goes on
ListingRejects(error) ==
    /\ op.pc \in {"awaitAll", "awaitNewer", "awaitList", "awaitGet"}
    /\ op' = LET o == IF HasCatchHandler("get") /\ IsRateLimitError(error)
                      THEN [op EXCEPT !.sent = Append(@, Sent("get", rpnOptionsFor("get", op.awaiting)))]
                      ELSE op
             IN  AfterListing(o, Awaited("get", error))
    /\ UNCHANGED dispatcherVars

\* a PUT of the operation is answered 2xx
PutResolves(r) ==
    /\ op.pc \in {"awaitPut", "awaitReturn"}
    /\ op.inflight > 0
    /\ op' = AfterPut([op EXCEPT !.answers = Append(@, r)], Awaited("put", r))
    /\ UNCHANGED dispatcherVars

\* the rejection swallowed, as with .catch(() => {}) on the PUT
PutRejects_Continues(error) ==
    /\ op.pc \in {"awaitPut", "awaitReturn"}
    /\ op.inflight > 0
    /\ op' = AfterPut([op EXCEPT !.answers = Append(@, error)],
                       [state |-> "resolved", value |-> Undefined])
    /\ UNCHANGED dispatcherVars

\* a PUT of the operation is answered with an error
PutRejects(error) ==
    /\ op.pc \in {"awaitPut", "awaitReturn"}
    /\ op.inflight > 0
    /\ op' = AfterPut([op EXCEPT !.answers = Append(@, error)], Awaited("put", error))
    /\ UNCHANGED dispatcherVars

----------------------------------------------------------------------------
Next ==
    \/ \E c \in Calls, v \in Verbs : Invoke(c, v, DefaultPathOptions)
    \/ \E c \in Calls, r \in Successes : TransportResolves(c, r)
    \/ \E c \in Calls, e \in Errors : TransportRejects(c, e)
    \/ \E c \in Calls : DelayCompletes(c)

Spec == Init /\ [][Next]_vars

\* every transport attempt is answered and every armed timer fires
Fairness ==
    \A c \in Calls :
        /\ WF_vars(\/ \E r \in Successes : TransportResolves(c, r)
                    \/ \E e \in Errors : TransportRejects(c, e))
        /\ WF_vars(DelayCompletes(c))

FairSpec == Spec /\ Fairness

\* the remote service answers every attempt with the rate-limit error
NextRateLimited ==
    \/ \E c \in Calls, v \in Verbs : Invoke(c, v, DefaultPathOptions)
    \/ \E c \in Calls : TransportRejects(c, Err(429))
    \/ \E c \in Calls : DelayCompletes(c)

SpecRateLimited ==
    /\ Init
    /\ [][NextRateLimited]_vars
    /\ \A c \in Calls : WF_vars(TransportRejects(c, Err(429))) /\ WF_vars(DelayCompletes(c))

\* the dispatcher under every shape of caller arguments, with the full
\* response flag toggled at any time
NextDispatch ==
    \/ \E c \in DispatchCalls, v \in Verbs, po \in PathOptions : Invoke(c, v, po)
    \/ \E enable \in BOOLEAN : enableFullResponse(enable)
    \/ \E c \in DispatchCalls, r \in Successes : TransportResolves(c, r)
    \/ \E c \in DispatchCalls, e \in Errors : TransportRejects(c, e)
    \/ \E c \in DispatchCalls : DelayCompletes(c)

SpecDispatch == Init /\ [][NextDispatch]_vars

\* the program from before construction: methods exist only on an instance
NextConstruct ==
    \/ \E load \in LoadResults : Construct(load)
    \/ IsInstance(trelloRequest) /\ NextDispatch

SpecConstruct == InitConstruct /\ [][NextConstruct]_vars

\* one domain verb from its call to the settlement of its promise
NextOps ==
    \/ \E param \in ArchiveParams : archiveCardsOlderThan(param)
    \/ \E param \in ListParams : unarchiveAllCardsOnList(param)
    \/ \E param \in ArchivedListParams : getArchivedCardsOnList(param)
    \/ \E param \in ArchivedBoardParams : getArchivedCardsOnBoard(param)
    \/ \E customFieldObj \in CustomFieldObjs : setCustomFieldValueOnCard(customFieldObj)
    \/ \E ids \in IdSeqs : ListingResolves(ids)
    \/ \E e \in Errors : ListingRejects(e)
    \/ \E r \in Successes : PutResolves(r)
    \/ \E e \in Errors : PutRejects(e)

SpecOps == Init /\ [][NextOps]_vars

----------------------------------------------------------------------------
(* Vocabulary of the properties *)

Is429(r) == r.kind = "error" /\ r.statusCode = 429
IsSuccess(r) == r.kind \in {"body", "envelope"}
IsOtherError(r) == r.kind = "error" /\ r.statusCode # 429

Count429(s) == Cardinality({i \in DOMAIN s : Is429(s[i])})

\* the first n responses were 429 and response n+1 exists
RateLimitedFirst(c, n) ==
    /\ Len(responses[c]) >= n + 1
    /\ \A i \in 1..n : Is429(responses[c][i])

Settled(c) == promise[c] \in {"resolved", "rejected"}

\* the state machine of a logical GET call
State(c) ==
    CASE pc[c] = "idle" -> "NotStarted"
      [] pc[c] = "done" /\ responses[c] = <<>> -> "Invalid"
      [] pc[c] = "transport" -> "Pending"
      [] pc[c] = "delay" -> "RateLimited"
      [] pc[c] = "done" /\ responses[c] # <<>> ->
            IF IsSuccess(responses[c][Len(responses[c])]) THEN "Succeeded" ELSE "Failed"

Terminal(c) == State(c) \in {"Succeeded", "Failed"}

\* timers that have fired
DelaysCompleted(c) == Len(delayLog[c]) - (IF timer[c] > 0 THEN 1 ELSE 0)

----------------------------------------------------------------------------
(* Properties *)

\* C1: a get whose transport rejects with 429 on the first N >= 1 attempts and
\* succeeds on attempt N+1 resolves, to its caller, with the value of that
\* last attempt.
C1_ResolvesWithFinalValue ==
    \A c \in Calls : \A n \in 1..MaxAttempts :
        (verb[c] = "get" /\ RateLimitedFirst(c, n) /\ IsSuccess(responses[c][n + 1]))
            => (promise[c] = "resolved" /\ value[c] = responses[c][n + 1])

\* C2: the promise returned by get is settled only when the logical call is
\* in a terminal state: no attempt or delay of the call is pending then.
C2_SettledOnlyWhenTerminal ==
    \A c \in Calls : (verb[c] = "get" /\ Settled(c)) => Terminal(c)

\* C3: a get whose transport rejects with 429 on the first k >= 1 attempts and
\* with another error on attempt k+1 rejects, to its caller, with that error.
C3_RejectsWithLaterError ==
    \A c \in Calls : \A k \in 1..MaxAttempts :
        (verb[c] = "get" /\ RateLimitedFirst(c, k) /\ IsOtherError(responses[c][k + 1]))
            => (promise[c] = "rejected" /\ value[c] = responses[c][k + 1])

\* C4: a get whose transport rejects with 429 on the first N attempts and
\* succeeds on attempt N+1 has invoked the transport exactly N+1 times.
C4_ExactlyNPlusOneAttempts ==
    \A c \in Calls : \A n \in 0..MaxAttempts :
        (verb[c] = "get" /\ RateLimitedFirst(c, n) /\ IsSuccess(responses[c][n + 1]))
            => attempts[c] = n + 1

C4_Witness ==
    \E c \in Calls :
        /\ verb[c] = "get" /\ RateLimitedFirst(c, 2) /\ IsSuccess(responses[c][3])
        /\ attempts[c] = 3

\* C5: a get whose first attempt rejects with a status other than 429 rejects
\* with that error after exactly one transport invocation and no delay.
C5_OtherErrorNotRetried ==
    \A c \in Calls :
        (verb[c] = "get" /\ Len(responses[c]) >= 1 /\ IsOtherError(responses[c][1]))
            => /\ promise[c] = "rejected"
               /\ value[c] = responses[c][1]
               /\ attempts[c] = 1
               /\ delayLog[c] = <<>>
               /\ pc[c] = "done"

C5_Witness ==
    \E c \in Calls :
        /\ verb[c] = "get" /\ responses[c] = <<Err(404)>>
        /\ promise[c] = "rejected" /\ value[c] = Err(404)

\* C6: a put, post or delete whose transport rejects with 429 rejects with
\* that error after exactly one transport invocation and no delay.
C6_NoRetryForPutPostDelete ==
    \A c \in Calls :
        (verb[c] \in {"put", "post", "delete"} /\ Len(responses[c]) >= 1
            /\ Is429(responses[c][1]))
            => /\ promise[c] = "rejected"
               /\ value[c] = responses[c][1]
               /\ attempts[c] = 1
               /\ delayLog[c] = <<>>
               /\ pc[c] = "done"

C6_Witness ==
    \E c, d \in Calls :
        /\ verb[c] = "put" /\ verb[d] \in {"post", "delete"}
        /\ responses[c] = <<Err(429)>> /\ responses[d] = <<Err(429)>>
        /\ promise[c] = "rejected" /\ value[c] = Err(429)
        /\ promise[d] = "rejected" /\ value[d] = Err(429)

\* C7: no get is ever rejected, to its caller or to nobody, with an error
\* whose status code is 429.
C7_Never429ToCaller ==
    \A c \in Calls :
        verb[c] = "get" =>
            /\ promise[c] = "rejected" => ~Is429(value[c])
            /\ \A e \in unhandled[c] : ~Is429(e)

C7_Witness ==
    \E c \in Calls :
        /\ verb[c] = "get" /\ Count429(responses[c]) >= 1
        /\ Settled(c) /\ pc[c] = "done"

\* C8: every get that was started reaches Succeeded or Failed with its promise
\* settled, provided attempts are answered, timers fire and 429 is answered
\* only finitely often.
C8_EventuallyTerminal ==
    \A c \in Calls : (verb[c] = "get") ~> (Terminal(c) /\ Settled(c))

C8_Witness ==
    \E c \in Calls :
        /\ verb[c] = "get" /\ Count429(responses[c]) >= 2
        /\ Terminal(c) /\ Settled(c)

\* C9: when every attempt is answered with 429, a get never reaches a terminal
\* state, nothing is rejected, every delay is the configured one, and the
\* number of attempts grows up to the bound of the model.
C9_NeverGivesUp ==
    /\ [](\A c \in Calls : verb[c] = "get" =>
            /\ ~Terminal(c)
            /\ promise[c] # "rejected" /\ unhandled[c] = {}
            /\ Len(delayLog[c]) = Len(responses[c])
            /\ \A i \in DOMAIN delayLog[c] : delayLog[c][i] = getRateLimitDelayMs)
    /\ \A c \in Calls : (verb[c] = "get") ~> (attempts[c] = MaxAttempts)

C9_Witness ==
    \E c \in Calls : verb[c] = "get" /\ attempts[c] > 4 /\ Count429(responses[c]) >= 4

\* C10: within a get, the number of delays started equals the number of 429
\* responses, every delay is 500 ms, and the number of attempts is one more
\* than the number of completed delays.
C10_OneDelayPerRetry ==
    \A c \in Calls :
        verb[c] = "get" =>
            /\ Len(delayLog[c]) = Count429(responses[c])
            /\ \A i \in DOMAIN delayLog[c] : delayLog[c][i] = 500
            /\ attempts[c] = DelaysCompleted(c) + 1

C10_Witness ==
    \E c \in Calls :
        /\ verb[c] = "get" /\ attempts[c] = 3
        /\ Len(delayLog[c]) = 3 /\ timer[c] > 0

\* C11: a failed attempt of a get is followed by a delay and a retry exactly
\* when its status code is 429; other status codes and errors without a status
\* code end the call.
Retried(c, i) == attempts[c] > i \/ (i = Len(responses[c]) /\ pc[c] = "delay")

C11_RetryIffRateLimit ==
    \A c \in Calls : \A i \in DOMAIN responses[c] :
        (verb[c] = "get" /\ responses[c][i].kind = "error")
            => /\ Is429(responses[c][i]) <=> Retried(c, i)
               /\ Retried(c, i) => Len(delayLog[c]) >= i
               /\ ~Is429(responses[c][i]) =>
                    (pc[c] = "done" /\ i = Len(responses[c]) /\ Len(delayLog[c]) = i - 1)

C11_Witness ==
    \E c, d \in Calls :
        /\ verb[c] = "get" /\ responses[c] = <<Err(429), Err(NoStatus)>> /\ attempts[c] = 2
        /\ verb[d] = "get" /\ responses[d] = <<Err(429), Err(429)>> /\ pc[d] = "delay"

\* what of a request reaches the remote service
Outbound(req) == [method |-> req.method, uri |-> req.uri, qs |-> req.qs, body |-> req.body]

\* C12: every attempt of a get is issued with the path and the options of the
\* first attempt.
C12_SameRequestOnRetry ==
    \A c \in Calls : \A i \in DOMAIN requests[c] :
        verb[c] = "get" =>
            /\ requests[c][i] = requests[c][1]
            /\ requests[c][i].uri = trelloRequest.uri \o args[c].path.str
            /\ Properties(args[c].options) \subseteq requests[c][i].qs

C12_Witness ==
    \E c \in Calls :
        /\ verb[c] = "get" /\ Len(requests[c]) = 3
        /\ <<"fields", "name">> \in requests[c][3].qs

\* C13: a get with valid arguments whose first attempt succeeds invokes the
\* transport once, starts no delay and resolves with the transport's value.
C13_FirstAttemptSuccess ==
    \A c \in Calls :
        (verb[c] = "get" /\ Len(responses[c]) >= 1 /\ IsSuccess(responses[c][1]))
            => /\ attempts[c] = 1 /\ Len(requests[c]) = 1
               /\ delayLog[c] = <<>>
               /\ pc[c] = "done"
               /\ promise[c] = "resolved" /\ value[c] = responses[c][1]

C13_Witness ==
    \E c \in Calls :
        /\ verb[c] = "get" /\ args[c].options.kind = "object"
        /\ args[c].options.entries # {}
        /\ responses[c] = <<Body("cardABC")>> /\ value[c] = Body("cardABC")

\* C14: a call of any verb whose path is omitted or empty is rejected with a
\* validation error, with no transport call and no delay.
C14_PathValidated ==
    \A c \in Calls :
        (verb[c] \in Verbs /\ args[c].path \in {Undefined, Str("")})
            => /\ promise[c] = "rejected" /\ value[c] = ValidationError
               /\ attempts[c] = 0 /\ requests[c] = <<>>
               /\ delayLog[c] = <<>> /\ timer[c] = 0
               /\ pc[c] = "done"

C14_Witness ==
    \E c \in Calls :
        /\ verb[c] = "get" /\ args[c].path = Str("") /\ args[c].options = Obj({})
        /\ promise[c] = "rejected"

\* C15: a call of any verb whose options or body argument is present and is
\* not a mapping is rejected with a validation error before any transport
\* call.
C15_OptionsValidated ==
    \A c \in Calls :
        (verb[c] \in Verbs /\ args[c].options.kind \notin {"undefined", "object"})
            => /\ promise[c] = "rejected" /\ value[c] = ValidationError
               /\ attempts[c] = 0 /\ requests[c] = <<>>
               /\ pc[c] = "done"

C15_Witness ==
    \E c \in Calls :
        /\ verb[c] = "put" /\ args[c].path = Str("/1/cards/ABC")
        /\ args[c].options = Str("name")
        /\ promise[c] = "rejected"

\* C16: the query string of every GET request has key and token, contains
\* every caller option, takes the caller's value for a property the caller
\* supplies, and has nothing else.
C16_GetQueryString ==
    \A c \in Calls : \A i \in DOMAIN requests[c] :
        verb[c] = "get" =>
            LET qs == requests[c][i].qs
                opts == Properties(args[c].options)
                auth == {<<"key", trelloRequest.key>>, <<"token", trelloRequest.token>>}
            IN /\ {"key", "token"} \subseteq Keys(qs)
               /\ opts \subseteq qs
               /\ \A e \in qs : e \in opts \/ (e \in auth /\ e[1] \notin Keys(opts))
               /\ \A e, f \in qs : e[1] = f[1] => e = f

C16_Witness ==
    \E c \in Calls :
        /\ verb[c] = "get" /\ Len(requests[c]) >= 1
        /\ requests[c][1].qs =
              {<<"key", "callerKey">>, <<"token", "appToken">>, <<"fields", "name">>}

\* C17: the query string of every DELETE request has key and token and every
\* caller option, and no body is sent.
C17_DeleteQueryString ==
    \A c \in Calls : \A i \in DOMAIN requests[c] :
        verb[c] = "delete" =>
            /\ {"key", "token"} \subseteq Keys(requests[c][i].qs)
            /\ Keys(Properties(args[c].options)) \subseteq Keys(requests[c][i].qs)
            /\ requests[c][i].body = Undefined

\* C18: the body of every PUT and POST request is the caller's mapping as
\* given, and the query string is the credentials and nothing else.
C18_PutPostBody ==
    \A c \in Calls : \A i \in DOMAIN requests[c] :
        verb[c] \in {"put", "post"} =>
            /\ requests[c][i].body = args[c].options
            /\ requests[c][i].qs =
                  {<<"key", trelloRequest.key>>, <<"token", trelloRequest.token>>}

C18_Witness ==
    \E c \in Calls :
        /\ verb[c] = "post" /\ Len(requests[c]) = 1
        /\ requests[c][1].body = Obj({<<"fields", "name">>, <<"key", "callerKey">>})
        /\ requests[c][1].qs = {<<"key", "appKey">>, <<"token", "appToken">>}

\* C19: a call whose options or body argument is absent sends the request it
\* would send for an empty mapping.
C19_AbsentAsEmpty ==
    \A c \in Calls : \A i \in DOMAIN requests[c] :
        args[c].options = Undefined =>
            Outbound(requests[c][i]) =
                Outbound(Sent(verb[c], rpnOptionsFor(verb[c], [args[c] EXCEPT !.options = Obj({})])))

\* C20: a call resolves with the full response envelope when the flag was on
\* at the call and with the decoded body when it was off.
C20_ShapeFollowsToggle ==
    \A c \in Calls :
        promise[c] = "resolved" =>
            /\ value[c].kind \in {"body", "envelope"}
            /\ depth[c] = 0 => (value[c].kind = "envelope" <=> resolveWithFullResponse[c])

C23_CallsIndependent ==
    \A c \in Calls :
        verb[c] \in Verbs =>
            /\ attempts[c] = Len(responses[c]) + (IF pc[c] = "transport" THEN 1 ELSE 0)
            /\ Len(delayLog[c]) = (IF verb[c] = "get" THEN Count429(responses[c]) ELSE 0)
            /\ IF responses[c] = <<>> \/ (verb[c] = "get" /\ Is429(responses[c][1])
                                           /\ attempts[c] < 2)
               THEN promise[c] = "pending"
               ELSE /\ promise[c] = Awaited(verb[c], responses[c][1]).state
                    /\ value[c] = Awaited(verb[c], responses[c][1]).value

C23_Witness ==
    \E c, d \in Calls :
        /\ c # d
        /\ verb[c] = "get" /\ pc[c] = "delay" /\ Len(responses[c]) = 2
        /\ verb[d] = "get" /\ depth[d] = 0 /\ promise[d] = "resolved"
        /\ value[d] = Body("cardABC")

\* C27: a get that was retried resolves with the shape selected by the flag
\* read when its last attempt was issued.
C27_RetryFollowsFlag ==
    \A c \in Calls :
        (verb[c] = "get" /\ pc[c] = "done" /\ Len(responses[c]) >= 2
            /\ IsSuccess(responses[c][Len(responses[c])]))
            => /\ responses[c][Len(responses[c])].kind =
                    (IF resolveWithFullResponse[c] THEN "envelope" ELSE "body")
               /\ promise[c] = "resolved"
               /\ value[c] = responses[c][Len(responses[c])]

\* C29: a get has at most one transport attempt outstanding; an attempt
\* after the first is outstanding only after the previous one was rejected
\* with 429 and its delay has completed.
C29_OneOutstandingAttempt ==
    \A c \in Calls :
        verb[c] = "get" =>
            /\ attempts[c] - Len(responses[c]) \in {0, 1}
            /\ attempts[c] - Len(responses[c]) = 1 <=> pc[c] = "transport"
            /\ (pc[c] = "transport" /\ attempts[c] > 1) =>
                    /\ Is429(responses[c][attempts[c] - 1])
                    /\ DelaysCompleted(c) = attempts[c] - 1
                    /\ timer[c] = 0

C29_Witness ==
    \E c \in Calls :
        verb[c] = "get" /\ attempts[c] = 3 /\ pc[c] = "transport" /\ Len(responses[c]) = 2

----------------------------------------------------------------------------
(* Vocabulary of the properties on domain verbs *)

Puts(o) == SelectSeq(o.sent, LAMBDA req : req.method = "put")

Gets(o) == SelectSeq(o.sent, LAMBDA req : req.method = "get")

CardUri(id) == "https://api.trello.com/1/cards/" \o id

ClosedBody(b) == Obj({<<"closed", Bool(b)>>})

Auth == {<<"key", "appKey">>, <<"token", "appToken">>}

----------------------------------------------------------------------------
\* C24: archiveCardsOlderThan issues an archive PUT (closed:true) for exactly
\* the cards of the full listing that are not in the listing requested with
\* since=cutoff, and never for a card whose id appears in the since=cutoff
\* listing.
C24_ArchivesOnlyOlderCards ==
    (op.name = "archiveCardsOlderThan" /\ Len(Puts(op)) > 0) =>
        LET older == Ids(op.allCards.val) \ Ids(op.newerCards.val)
        IN  /\ \A i \in DOMAIN Puts(op) :
                  /\ Puts(op)[i].body = ClosedBody(TRUE)
                  /\ \E id \in older : Puts(op)[i].uri = CardUri(id)
            /\ op.result.state = "resolved" =>
                  \A id \in older : \E i \in DOMAIN Puts(op) : Puts(op)[i].uri = CardUri(id)

----------------------------------------------------------------------------
\* C25: setCustomFieldValueOnCard issues exactly one PUT to
\* /1/cards/<cardId>/customField/<fieldId>/item whose body is
\* {idValue: value} for the list type and {value: {<type>: value}} for every
\* other type; when cardFieldObj, type, value, cardId or fieldId is missing it
\* fails validation and calls no transport.
C25_CustomFieldPut ==
    op.name = "setCustomFieldValueOnCard" =>
        LET complete ==
                /\ {"cardFieldObj", "type", "value"} \subseteq Keys(op.param)
                /\ {"cardId", "fieldId"} \subseteq
                        Keys(Properties(Prop(op.param, "cardFieldObj")))
            type == Prop(op.param, "type")
            v == Prop(op.param, "value")
        IN  IF complete
            THEN /\ Len(op.sent) = 1
                 /\ op.sent[1].method = "put"
                 /\ op.sent[1].uri = "https://api.trello.com/1/cards/c1/customField/F1/item"
                 /\ op.sent[1].qs = Auth
                 /\ op.sent[1].body =
                        IF type = Str("list")
                        THEN Obj({<<"idValue", v>>})
                        ELSE Obj({<<"value", Obj({<<type.str, v>>})>>})
            ELSE /\ op.sent = <<>>
                 /\ op.result.state \in {"thrown", "rejected"}
                 /\ op.result.value = ValidationError

\* a list field set: the one PUT carried {idValue: value} and was answered
C25_Witness ==
    /\ op.name = "setCustomFieldValueOnCard"
    /\ Prop(op.param, "type") = Str("list")
    /\ Len(op.sent) = 1
    /\ op.sent[1].body = Obj({<<"idValue", Str("item1")>>})
    /\ op.result.state = "resolved"

----------------------------------------------------------------------------
\* C26: getArchivedCardsOnList and getArchivedCardsOnBoard issue their GET
\* with filter 'closed', whatever filter the caller supplied, and with every
\* other option of the caller unchanged; every card they return is closed.
C26_ArchivedFilter ==
    op.name \in {"getArchivedCardsOnList", "getArchivedCardsOnBoard"} =>
        LET callerOptions == Properties(Prop(op.param, "options"))
        IN  /\ \A i \in DOMAIN op.sent :
                  /\ op.sent[i].method = "get"
                  /\ op.sent[i].uri =
                        IF op.name = "getArchivedCardsOnList"
                        THEN "https://api.trello.com/1/lists/L1/cards"
                        ELSE "https://api.trello.com/1/board/B1/cards"
                  /\ op.sent[i].qs =
                        Auth \cup {<<"filter", "closed">>}
                             \cup {e \in callerOptions : e[1] # "filter"}
            /\ (op.result.state = "resolved" /\ op.result.value.kind = "body") =>
                  \A i \in DOMAIN op.result.value.val : op.result.value.val[i].closed

\* the caller asked for filter 'open' and got closed cards
C26_Witness ==
    /\ op.name \in {"getArchivedCardsOnList", "getArchivedCardsOnBoard"}
    /\ <<"filter", "open">> \in Properties(Prop(op.param, "options"))
    /\ op.result.state = "resolved"
    /\ op.result.value.kind = "body"
    /\ Len(op.result.value.val) = 2

----------------------------------------------------------------------------
\* C28: unarchiveAllCardsOnList issues one GET with filter 'closed' for the
\* cards of the list, then one PUT with body {closed: false} per card
\* returned, in listing order, the next PUT only after the previous one has
\* resolved: at most one PUT of the operation is in flight.
C28_SequentialUnarchive ==
    op.name = "unarchiveAllCardsOnList" =>
        /\ \A i \in DOMAIN Gets(op) :
              /\ Gets(op)[i].uri = "https://api.trello.com/1/lists/L1/cards"
              /\ Gets(op)[i].qs = Auth \cup {<<"filter", "closed">>, <<"fields", "name">>}
        /\ Len(Puts(op)) > 0 =>
              /\ Len(Gets(op)) = 1
              /\ op.sent[1].method = "get"
        /\ Len(Puts(op)) <= Len(op.todo)
        /\ \A k \in DOMAIN Puts(op) :
              /\ Puts(op)[k].uri = CardUri(op.todo[k].id)
              /\ Puts(op)[k].body = ClosedBody(FALSE)
        /\ Len(Puts(op)) - Len(op.answers) \in {0, 1}
        /\ op.inflight = Len(Puts(op)) - Len(op.answers)
        /\ Len(Puts(op)) > 1 => IsSuccess(op.answers[Len(Puts(op)) - 1])
        /\ op.result.state = "resolved" => Len(Puts(op)) = Len(op.todo)

\* the second card's PUT is in flight after the first card's PUT resolved
C28_Witness ==
    /\ op.name = "unarchiveAllCardsOnList"
    /\ Len(op.todo) = 3
    /\ Len(Puts(op)) = 2
    /\ Len(op.answers) = 1
    /\ op.inflight = 1

----------------------------------------------------------------------------
\* C30: in unarchiveAllCardsOnList and archiveCardsOlderThan a failing PUT
\* (429 included) rejects the operation with that error, no PUT is issued for
\* a later card and no PUT undoes an earlier one; the operation resolves only
\* if every per-card PUT succeeded.
C30_PutFailureStopsLoop ==
    op.name \in {"unarchiveAllCardsOnList", "archiveCardsOlderThan"} =>
        LET target == ClosedBody(op.name = "archiveCardsOlderThan")
        IN  /\ \A i \in DOMAIN op.answers :
                  op.answers[i].kind = "error" =>
                      /\ i = Len(op.answers)
                      /\ Len(Puts(op)) = i
                      /\ op.pc = "done"
                      /\ op.result = [state |-> "rejected", value |-> op.answers[i]]
            /\ \A i \in DOMAIN Puts(op) : Puts(op)[i].body = target
            /\ \A i, j \in DOMAIN Puts(op) : Puts(op)[i].uri = Puts(op)[j].uri => i = j
            /\ op.result.state = "resolved" =>
                  /\ Len(op.answers) = Len(op.todo)
                  /\ Len(Puts(op)) = Len(op.todo)
                  /\ \A i \in DOMAIN op.answers : IsSuccess(op.answers[i])

\* the first card's PUT succeeded, the second was answered 429: the operation
\* has rejected with that error and the third card got no PUT
C30_Witness ==
    /\ op.name \in {"unarchiveAllCardsOnList", "archiveCardsOlderThan"}
    /\ Len(op.todo) = 3
    /\ Len(Puts(op)) = 2
    /\ Len(op.answers) = 2
    /\ IsSuccess(op.answers[1])
    /\ op.answers[2] = Err(429)
    /\ op.result = [state |-> "rejected", value |-> Err(429)]

====
